---- MODULE Spec2Model ----
(***************************************************************************)
(* State-machine model of contracts/PrivateIncomeVerification.sol.         *)
(* Every state-changing external function of the contract is one action;   *)
(* a call that reverts is a step that changes nothing.  For every external *)
(* function, fErr gives the revert string of a call (OK when it returns),  *)
(* computed from the storage, msg.sender, block.timestamp and arguments in *)
(* the order in which the code evaluates its modifiers and requires.       *)
(* View functions are operators over the state; SpecViews adds their calls *)
(* as steps.  The variable `last` holds the latest step that was not       *)
(* reverted, with the events it emitted.                                   *)
(***************************************************************************)
EXTENDS Integers, Sequences, FiniteSets, TLC

(* ------------------------------ bounds --------------------------------- *)
\* number of requests the model lets callers submit
MaxRequests == 1
\* the block timestamps sampled from one validity period after deployment on
MaxSkew == 1
\* block.timestamp of the deployment block
GenesisTime == 1

(* ------------------------- program constants --------------------------- *)
VERIFICATION_VALIDITY_PERIOD == 365 * 24 * 60 * 60

(* ----------------------------- input sets ------------------------------ *)
ZeroAddress == 0
Deployer == 1
Addr == {1, 2, 3}
\* uint8 arguments: the rejected value zero and one accepted value
Levels == {0, 255}
Months == {0, 1}
DocHashes == {"", "Qm"}
EmployerHashes == {"", "emp"}
\* identifiers a caller may pass: every slot the model can allocate, and MaxRequests,
\* which is never allocated
Ids == 0 .. MaxRequests
\* the block timestamps of the model: the deployment time, the time one validity
\* period later and the seconds that follow it
TimePoints ==
    {GenesisTime}
      \cup {GenesisTime + VERIFICATION_VALIDITY_PERIOD + k : k \in 0 .. MaxSkew}

OK == ""

VARIABLES verificationAuthority, verificationCount, verifications, userVerifications,
          verificationRequests, userRequests, requestCounter, allowed, now, last,
          owner, encryptedCounter, pc, config, disk

storage == <<verificationAuthority, verificationCount, verifications, userVerifications,
             verificationRequests, userRequests, requestCounter, allowed>>
\* the storage of base-template/contracts/Example.sol
example == <<owner, encryptedCounter>>
\* the scaffolding tool: its position, its ExampleConfig and the file system
tool == <<pc, config, disk>>
vars == <<verificationAuthority, verificationCount, verifications, userVerifications,
          verificationRequests, userRequests, requestCounter, allowed, now, last,
          owner, encryptedCounter, pc, config, disk>>

(* --------------------------- encrypted values -------------------------- *)
\* the handle of an euint8 that was never assigned
NoHandle == [kind |-> "none", val |-> 0]
\* FHE.asEuint8: the handle of a trivial encryption is a function of the plaintext
asEuint8(v) == [kind |-> "euint8", val |-> v % 256]
\* address(this), the holder FHE.allowThis grants to
ThisContract == 4

(* --------------------------- storage defaults -------------------------- *)
\* the scaffolding tool before scaffold() is called, in empty directories
NotStarted == [at |-> "start", i |-> 0]
NoConfig == [contractName |-> "", confirm |-> ""]
EmptyDisk == [out |-> {}, template |-> {}]

ZeroVerification ==
    [encryptedIncomeLevel |-> NoHandle, encryptedEmploymentMonths |-> NoHandle,
     isVerified |-> FALSE, isActive |-> FALSE, verificationTime |-> 0, expiryTime |-> 0,
     employerHash |-> "", verifiedUser |-> ZeroAddress]

ZeroRequest ==
    [requester |-> ZeroAddress, claimedIncomeLevel |-> NoHandle,
     employmentDuration |-> NoHandle, isPending |-> FALSE, requestTime |-> 0,
     documentHash |-> ""]

\* the latest executed transaction: the function, msg.sender, the arguments and the
\* emitted events
Call(op, caller, args, events) ==
    [op |-> op, caller |-> caller, args |-> args, events |-> events]

Init ==
    /\ verificationAuthority = Deployer
    /\ verificationCount = 0
    /\ requestCounter = 0
    /\ verifications = [i \in Ids |-> ZeroVerification]
    /\ verificationRequests = [i \in Ids |-> ZeroRequest]
    /\ userVerifications = [a \in Addr |-> <<>>]
    /\ userRequests = [a \in Addr |-> <<>>]
    /\ allowed = {}
    /\ now = GenesisTime
    /\ last = Call("constructor", Deployer, <<>>, <<>>)
    /\ owner = Deployer
    /\ encryptedCounter = NoHandle
    /\ pc = NotStarted
    /\ config = NoConfig
    /\ disk = EmptyDisk

(* ------------------------------ modifiers ------------------------------ *)
\* onlyAuthority that also lets the deployer through
onlyAuthority_OrDeployer(sender) ==
    IF sender = verificationAuthority \/ sender = Deployer THEN OK ELSE "Not authorized"

onlyAuthority(sender) ==
    IF sender = verificationAuthority THEN OK ELSE "Not authorized"

\* validVerification without require(isActive)
validVerification_NoActiveCheck(id) ==
    IF ~(id < verificationCount) THEN "Invalid verification ID"
    ELSE IF ~(now <= verifications[id].expiryTime) THEN "Verification expired"
    ELSE OK

\* validVerification with the expiry require before the isActive require
validVerification_ExpiryFirst(id) ==
    IF ~(id < verificationCount) THEN "Invalid verification ID"
    ELSE IF ~(now <= verifications[id].expiryTime) THEN "Verification expired"
    ELSE IF ~verifications[id].isActive THEN "Verification not active"
    ELSE OK

\* validVerification without the require on expiryTime
validVerification_NoExpiryCheck(id) ==
    IF ~(id < verificationCount) THEN "Invalid verification ID"
    ELSE IF ~verifications[id].isActive THEN "Verification not active"
    ELSE OK

validVerification(id) ==
    IF ~(id < verificationCount) THEN "Invalid verification ID"
    ELSE IF ~verifications[id].isActive THEN "Verification not active"
    ELSE IF ~(now <= verifications[id].expiryTime) THEN "Verification expired"
    ELSE OK

\* the first failing check of a list of checks, in order
RECURSIVE FirstError(_)
FirstError(checks) ==
    IF checks = <<>> THEN OK
    ELSE IF Head(checks) # OK THEN Head(checks)
    ELSE FirstError(Tail(checks))

\* a reverted call: every change is rolled back
Revert == UNCHANGED vars

(* ---------------------- requestIncomeVerification ---------------------- *)
\* requestIncomeVerificationErr without the require on _employmentMonths
requestIncomeVerificationErr_NoMonthsCheck(incomeLevel, employmentMonths, documentHash) ==
    FirstError(<<
        IF incomeLevel > 0 THEN OK ELSE "Income level must be greater than 0",
        IF Len(documentHash) > 0 THEN OK ELSE "Document hash required" >>)

requestIncomeVerificationErr(incomeLevel, employmentMonths, documentHash) ==
    FirstError(<<
        IF incomeLevel > 0 THEN OK ELSE "Income level must be greater than 0",
        IF employmentMonths > 0 THEN OK ELSE "Employment duration must be greater than 0",
        IF Len(documentHash) > 0 THEN OK ELSE "Document hash required" >>)

\* requestIncomeVerification without userRequests[msg.sender].push
requestIncomeVerification_NoIndexPush(sender, incomeLevel, employmentMonths, documentHash) ==
    LET err == requestIncomeVerificationErr(incomeLevel, employmentMonths, documentHash)
        args == <<incomeLevel, employmentMonths, documentHash>>
        encryptedIncomeLevel == asEuint8(incomeLevel)
        encryptedEmploymentMonths == asEuint8(employmentMonths)
    IN  IF err # OK THEN Revert
        ELSE
          /\ verificationRequests' = [verificationRequests EXCEPT ![requestCounter] =
                [requester |-> sender,
                 claimedIncomeLevel |-> encryptedIncomeLevel,
                 employmentDuration |-> encryptedEmploymentMonths,
                 isPending |-> TRUE,
                 requestTime |-> now,
                 documentHash |-> documentHash]]
          /\ allowed' = allowed \cup
                {<<encryptedIncomeLevel, ThisContract>>,
                 <<encryptedEmploymentMonths, ThisContract>>,
                 <<encryptedIncomeLevel, sender>>,
                 <<encryptedEmploymentMonths, sender>>}
          /\ requestCounter' = requestCounter + 1
          /\ last' = Call("requestIncomeVerification", sender, args,
                          << <<"VerificationRequested", requestCounter, sender, now>> >>)
          /\ UNCHANGED <<verificationAuthority, verificationCount, verifications,
                         userVerifications, userRequests, now>>

\* requestIncomeVerification without requestCounter++
requestIncomeVerification_NoIncrement(sender, incomeLevel, employmentMonths, documentHash) ==
    LET err == requestIncomeVerificationErr(incomeLevel, employmentMonths, documentHash)
        args == <<incomeLevel, employmentMonths, documentHash>>
        encryptedIncomeLevel == asEuint8(incomeLevel)
        encryptedEmploymentMonths == asEuint8(employmentMonths)
    IN  IF err # OK THEN Revert
        ELSE
          /\ verificationRequests' = [verificationRequests EXCEPT ![requestCounter] =
                [requester |-> sender,
                 claimedIncomeLevel |-> encryptedIncomeLevel,
                 employmentDuration |-> encryptedEmploymentMonths,
                 isPending |-> TRUE,
                 requestTime |-> now,
                 documentHash |-> documentHash]]
          /\ userRequests' = [userRequests EXCEPT ![sender] = Append(@, requestCounter)]
          /\ allowed' = allowed \cup
                {<<encryptedIncomeLevel, ThisContract>>,
                 <<encryptedEmploymentMonths, ThisContract>>,
                 <<encryptedIncomeLevel, sender>>,
                 <<encryptedEmploymentMonths, sender>>}
          /\ last' = Call("requestIncomeVerification", sender, args,
                          << <<"VerificationRequested", requestCounter, sender, now>> >>)
          /\ UNCHANGED <<verificationAuthority, verificationCount, verifications,
                         userVerifications, requestCounter, now>>

requestIncomeVerification(sender, incomeLevel, employmentMonths, documentHash) ==
    LET err == requestIncomeVerificationErr(incomeLevel, employmentMonths, documentHash)
        args == <<incomeLevel, employmentMonths, documentHash>>
        encryptedIncomeLevel == asEuint8(incomeLevel)
        encryptedEmploymentMonths == asEuint8(employmentMonths)
    IN  IF err # OK THEN Revert
        ELSE
          /\ verificationRequests' = [verificationRequests EXCEPT ![requestCounter] =
                [requester |-> sender,
                 claimedIncomeLevel |-> encryptedIncomeLevel,
                 employmentDuration |-> encryptedEmploymentMonths,
                 isPending |-> TRUE,
                 requestTime |-> now,
                 documentHash |-> documentHash]]
          /\ userRequests' = [userRequests EXCEPT ![sender] = Append(@, requestCounter)]
          /\ allowed' = allowed \cup
                {<<encryptedIncomeLevel, ThisContract>>,
                 <<encryptedEmploymentMonths, ThisContract>>,
                 <<encryptedIncomeLevel, sender>>,
                 <<encryptedEmploymentMonths, sender>>}
          /\ requestCounter' = requestCounter + 1
          /\ last' = Call("requestIncomeVerification", sender, args,
                          << <<"VerificationRequested", requestCounter, sender, now>> >>)
          /\ UNCHANGED <<verificationAuthority, verificationCount, verifications,
                         userVerifications, now>>

(* --------------------- processVerificationRequest ---------------------- *)
\* processVerificationRequestErr without require(isPending)
processVerificationRequestErr_NoPendingCheck(sender, requestId, employerHash) ==
    FirstError(<<
        onlyAuthority(sender),
        IF requestId < requestCounter THEN OK ELSE "Invalid request ID",
        IF Len(employerHash) > 0 THEN OK ELSE "Employer hash required" >>)

\* processVerificationRequestErr without the onlyAuthority modifier
processVerificationRequestErr_NoModifier(sender, requestId, employerHash) ==
    FirstError(<<
        IF requestId < requestCounter THEN OK ELSE "Invalid request ID",
        IF verificationRequests[requestId].isPending THEN OK ELSE "Request not pending",
        IF Len(employerHash) > 0 THEN OK ELSE "Employer hash required" >>)

\* processVerificationRequestErr with the require on _employerHash before the
\* require on isPending
processVerificationRequestErr_HashFirst(sender, requestId, employerHash) ==
    FirstError(<<
        onlyAuthority(sender),
        IF requestId < requestCounter THEN OK ELSE "Invalid request ID",
        IF Len(employerHash) > 0 THEN OK ELSE "Employer hash required",
        IF verificationRequests[requestId].isPending THEN OK ELSE "Request not pending" >>)

processVerificationRequestErr(sender, requestId, employerHash) ==
    FirstError(<<
        onlyAuthority(sender),
        IF requestId < requestCounter THEN OK ELSE "Invalid request ID",
        IF verificationRequests[requestId].isPending THEN OK ELSE "Request not pending",
        IF Len(employerHash) > 0 THEN OK ELSE "Employer hash required" >>)

\* NewVerification with the expiry counted from the time of the request
NewVerification_ExpiryFromRequestTime(request, employerHash) ==
    [encryptedIncomeLevel |-> request.claimedIncomeLevel,
     encryptedEmploymentMonths |-> request.employmentDuration,
     isVerified |-> TRUE,
     isActive |-> TRUE,
     verificationTime |-> now,
     expiryTime |-> request.requestTime + VERIFICATION_VALIDITY_PERIOD,
     employerHash |-> employerHash,
     verifiedUser |-> request.requester]

\* the IncomeVerification written on approval
\* NewVerification with an expiry two validity periods ahead
NewVerification_DoubleValidity(request, employerHash) ==
    [encryptedIncomeLevel |-> request.claimedIncomeLevel,
     encryptedEmploymentMonths |-> request.employmentDuration,
     isVerified |-> TRUE,
     isActive |-> TRUE,
     verificationTime |-> now,
     expiryTime |-> now + 2 * VERIFICATION_VALIDITY_PERIOD,
     employerHash |-> employerHash,
     verifiedUser |-> request.requester]

\* NewVerification that leaves isVerified at its default
NewVerification_Unverified(request, employerHash) ==
    [encryptedIncomeLevel |-> request.claimedIncomeLevel,
     encryptedEmploymentMonths |-> request.employmentDuration,
     isVerified |-> FALSE,
     isActive |-> TRUE,
     verificationTime |-> now,
     expiryTime |-> now + VERIFICATION_VALIDITY_PERIOD,
     employerHash |-> employerHash,
     verifiedUser |-> request.requester]

NewVerification(request, employerHash) ==
    [encryptedIncomeLevel |-> request.claimedIncomeLevel,
     encryptedEmploymentMonths |-> request.employmentDuration,
     isVerified |-> TRUE,
     isActive |-> TRUE,
     verificationTime |-> now,
     expiryTime |-> now + VERIFICATION_VALIDITY_PERIOD,
     employerHash |-> employerHash,
     verifiedUser |-> request.requester]

\* the approval branch that pushes the record ID on the list of msg.sender
ApproveBranch_PushToSender(sender, args, request, employerHash) ==
    /\ verifications' = [verifications EXCEPT ![verificationCount] =
          NewVerification(request, employerHash)]
    /\ userVerifications' = [userVerifications EXCEPT
          ![sender] = Append(@, verificationCount)]
    /\ verificationCount' = verificationCount + 1
    /\ last' = Call("processVerificationRequest", sender, args,
          << <<"ThresholdVerification", verificationCount, request.requester, TRUE>>,
             <<"IncomeVerified", verificationCount, request.requester, now, TRUE>> >>)

\* the approval branch that deactivates the earlier records of the requester
ApproveBranch_ReplacesEarlier(sender, args, request, employerHash) ==
    /\ verifications' =
          [i \in DOMAIN verifications |->
              IF i = verificationCount THEN NewVerification(request, employerHash)
              ELSE IF verifications[i].verifiedUser = request.requester
              THEN [verifications[i] EXCEPT !.isActive = FALSE]
              ELSE verifications[i]]
    /\ userVerifications' = [userVerifications EXCEPT
          ![request.requester] = Append(@, verificationCount)]
    /\ verificationCount' = verificationCount + 1
    /\ last' = Call("processVerificationRequest", sender, args,
          << <<"ThresholdVerification", verificationCount, request.requester, TRUE>>,
             <<"IncomeVerified", verificationCount, request.requester, now, TRUE>> >>)

\* the body of if (_isApproved), with the events of _checkIncomeThreshold and of
\* the function itself
ApproveBranch(sender, args, request, employerHash) ==
    /\ verifications' = [verifications EXCEPT ![verificationCount] =
          NewVerification(request, employerHash)]
    /\ userVerifications' = [userVerifications EXCEPT
          ![request.requester] = Append(@, verificationCount)]
    /\ verificationCount' = verificationCount + 1
    /\ last' = Call("processVerificationRequest", sender, args,
          << <<"ThresholdVerification", verificationCount, request.requester, TRUE>>,
             <<"IncomeVerified", verificationCount, request.requester, now, TRUE>> >>)

\* processVerificationRequest that runs the approval branch whatever _isApproved is
processVerificationRequest_RecordOnReject(sender, requestId, employerHash, isApproved) ==
    LET err == processVerificationRequestErr(sender, requestId, employerHash)
        args == <<requestId, employerHash, isApproved>>
        request == verificationRequests[requestId]
    IN  IF err # OK THEN Revert
        ELSE
          /\ verificationRequests' =
                [verificationRequests EXCEPT ![requestId].isPending = FALSE]
          /\ ApproveBranch(sender, args, request, employerHash)
          /\ UNCHANGED <<verificationAuthority, userRequests, requestCounter, allowed,
                         now>>

\* processVerificationRequest that requires the employer hash for an approval only
processVerificationRequest_HashOnlyOnApprove(sender, requestId, employerHash, isApproved) ==
    LET err == IF isApproved
               THEN processVerificationRequestErr(sender, requestId, employerHash)
               ELSE processVerificationRequestErr(sender, requestId, "-")
        args == <<requestId, employerHash, isApproved>>
        request == verificationRequests[requestId]
    IN  IF err # OK THEN Revert
        ELSE
          /\ verificationRequests' =
                [verificationRequests EXCEPT ![requestId].isPending = FALSE]
          /\ IF isApproved
             THEN ApproveBranch(sender, args, request, employerHash)
             ELSE /\ UNCHANGED <<verifications, userVerifications, verificationCount>>
                  /\ last' = Call("processVerificationRequest", sender, args, <<>>)
          /\ UNCHANGED <<verificationAuthority, userRequests, requestCounter, allowed,
                         now>>

processVerificationRequest(sender, requestId, employerHash, isApproved) ==
    LET err == processVerificationRequestErr(sender, requestId, employerHash)
        args == <<requestId, employerHash, isApproved>>
        request == verificationRequests[requestId]
    IN  IF err # OK THEN Revert
        ELSE
          /\ verificationRequests' =
                [verificationRequests EXCEPT ![requestId].isPending = FALSE]
          /\ IF isApproved
             THEN ApproveBranch(sender, args, request, employerHash)
             ELSE /\ UNCHANGED <<verifications, userVerifications, verificationCount>>
                  /\ last' = Call("processVerificationRequest", sender, args, <<>>)
          /\ UNCHANGED <<verificationAuthority, userRequests, requestCounter, allowed,
                         now>>

(* ----------------------- deactivateVerification ------------------------ *)
\* the owner-or-authority require that lets every caller through
isOwnerOrAuthority_Anyone(sender, id) == OK

\* require(verifiedUser == msg.sender || msg.sender == verificationAuthority)
isOwnerOrAuthority(sender, id) ==
    IF verifications[id].verifiedUser = sender \/ sender = verificationAuthority
    THEN OK ELSE "Not authorized"

deactivateVerificationErr(sender, verificationId) ==
    FirstError(<<validVerification(verificationId),
                 isOwnerOrAuthority(sender, verificationId)>>)

\* deactivateVerification whose write is not covered by the owner-or-authority require
deactivateVerification_WriteUnchecked(sender, verificationId) ==
    LET err == validVerification(verificationId)
        args == <<verificationId>>
    IN  IF err # OK THEN Revert
        ELSE
          /\ verifications' = [verifications EXCEPT ![verificationId].isActive = FALSE]
          /\ last' = Call("deactivateVerification", sender, args,
                << <<"VerificationExpired", verificationId,
                     verifications[verificationId].verifiedUser>> >>)
          /\ UNCHANGED <<verificationAuthority, verificationCount, userVerifications,
                         verificationRequests, userRequests, requestCounter, allowed,
                         now>>

\* deactivateVerification that flips isActive of any allocated record
deactivateVerification_Toggle(sender, verificationId) ==
    LET err == FirstError(<<
                  IF verificationId < verificationCount THEN OK
                  ELSE "Invalid verification ID",
                  isOwnerOrAuthority(sender, verificationId)>>)
        args == <<verificationId>>
    IN  IF err # OK THEN Revert
        ELSE
          /\ verifications' = [verifications EXCEPT
                ![verificationId].isActive = ~verifications[verificationId].isActive]
          /\ last' = Call("deactivateVerification", sender, args,
                << <<"VerificationExpired", verificationId,
                     verifications[verificationId].verifiedUser>> >>)
          /\ UNCHANGED <<verificationAuthority, verificationCount, userVerifications,
                         verificationRequests, userRequests, requestCounter, allowed,
                         now>>

\* deactivateVerification that deletes the record instead of clearing isActive
deactivateVerification_DeletesRecord(sender, verificationId) ==
    LET err == deactivateVerificationErr(sender, verificationId)
        args == <<verificationId>>
    IN  IF err # OK THEN Revert
        ELSE
          /\ verifications' = [verifications EXCEPT ![verificationId] = ZeroVerification]
          /\ last' = Call("deactivateVerification", sender, args,
                << <<"VerificationExpired", verificationId,
                     verifications[verificationId].verifiedUser>> >>)
          /\ UNCHANGED <<verificationAuthority, verificationCount, userVerifications,
                         verificationRequests, userRequests, requestCounter, allowed,
                         now>>

deactivateVerification(sender, verificationId) ==
    LET err == deactivateVerificationErr(sender, verificationId)
        args == <<verificationId>>
    IN  IF err # OK THEN Revert
        ELSE
          /\ verifications' = [verifications EXCEPT ![verificationId].isActive = FALSE]
          /\ last' = Call("deactivateVerification", sender, args,
                << <<"VerificationExpired", verificationId,
                     verifications[verificationId].verifiedUser>> >>)
          /\ UNCHANGED <<verificationAuthority, verificationCount, userVerifications,
                         verificationRequests, userRequests, requestCounter, allowed,
                         now>>

(* --------------------- updateVerificationAuthority --------------------- *)
\* updateVerificationAuthorityErr without the require on _newAuthority
updateVerificationAuthorityErr_NoZeroCheck(sender, newAuthority) ==
    FirstError(<<onlyAuthority(sender)>>)

updateVerificationAuthorityErr(sender, newAuthority) ==
    FirstError(<<onlyAuthority(sender),
                 IF newAuthority # ZeroAddress THEN OK ELSE "Invalid authority address">>)

updateVerificationAuthority(sender, newAuthority) ==
    LET err == updateVerificationAuthorityErr(sender, newAuthority)
        args == <<newAuthority>>
    IN  IF err # OK THEN Revert
        ELSE
          /\ verificationAuthority' = newAuthority
          /\ last' = Call("updateVerificationAuthority", sender, args, <<>>)
          /\ UNCHANGED <<verificationCount, verifications, userVerifications,
                         verificationRequests, userRequests, requestCounter, allowed,
                         now>>

(* --------------------------- view functions ---------------------------- *)
verifyIncomeThresholdErr(sender, verificationId, requiredLevel) ==
    FirstError(<<validVerification(verificationId),
                 isOwnerOrAuthority(sender, verificationId)>>)

\* the value returned when the call does not revert
verifyIncomeThreshold(sender, verificationId, requiredLevel) == TRUE

\* compareIncomesErr whose require leaves out the owner of the second record
compareIncomesErr_FirstOwnerOnly(sender, verificationId1, verificationId2) ==
    FirstError(<<validVerification(verificationId1),
                 validVerification(verificationId2),
                 IF \/ verifications[verificationId1].verifiedUser = sender
                    \/ sender = verificationAuthority
                 THEN OK ELSE "Not authorized">>)

\* compareIncomesErr with the modifier of the second record before that of the first
compareIncomesErr_SecondRecordFirst(sender, verificationId1, verificationId2) ==
    FirstError(<<validVerification(verificationId2),
                 validVerification(verificationId1),
                 IF \/ verifications[verificationId1].verifiedUser = sender
                    \/ verifications[verificationId2].verifiedUser = sender
                    \/ sender = verificationAuthority
                 THEN OK ELSE "Not authorized">>)

compareIncomesErr(sender, verificationId1, verificationId2) ==
    FirstError(<<validVerification(verificationId1),
                 validVerification(verificationId2),
                 IF \/ verifications[verificationId1].verifiedUser = sender
                    \/ verifications[verificationId2].verifiedUser = sender
                    \/ sender = verificationAuthority
                 THEN OK ELSE "Not authorized">>)

compareIncomes(sender, verificationId1, verificationId2) == TRUE

getVerificationInfoErr(sender, verificationId) ==
    FirstError(<<validVerification(verificationId),
                 isOwnerOrAuthority(sender, verificationId)>>)

getVerificationInfo(sender, verificationId) ==
    LET verification == verifications[verificationId]
    IN  [isVerified |-> verification.isVerified,
         isActive |-> verification.isActive,
         verificationTime |-> verification.verificationTime,
         expiryTime |-> verification.expiryTime,
         employerHash |-> verification.employerHash,
         verifiedUser |-> verification.verifiedUser]

getUserVerificationsErr(sender, user) ==
    IF user = sender \/ sender = verificationAuthority THEN OK ELSE "Not authorized"

getUserVerifications(sender, user) == userVerifications[user]

getUserRequestsErr(sender, user) ==
    IF user = sender \/ sender = verificationAuthority THEN OK ELSE "Not authorized"

getUserRequests(sender, user) == userRequests[user]

getRequestInfoErr(sender, requestId) ==
    FirstError(<<
        IF requestId < requestCounter THEN OK ELSE "Invalid request ID",
        IF \/ verificationRequests[requestId].requester = sender
           \/ sender = verificationAuthority
        THEN OK ELSE "Not authorized">>)

getRequestInfo(sender, requestId) ==
    LET request == verificationRequests[requestId]
    IN  [requester |-> request.requester,
         isPending |-> request.isPending,
         requestTime |-> request.requestTime,
         documentHash |-> request.documentHash]

\* isVerificationValid with block.timestamp < expiryTime
isVerificationValid_StrictExpiry(verificationId) ==
    IF verificationId >= verificationCount THEN FALSE
    ELSE LET verification == verifications[verificationId]
         IN  /\ verification.isActive
             /\ verification.isVerified
             /\ now < verification.expiryTime

\* never reverts
isVerificationValid(verificationId) ==
    IF verificationId >= verificationCount THEN FALSE
    ELSE LET verification == verifications[verificationId]
         IN  /\ verification.isActive
             /\ verification.isVerified
             /\ now <= verification.expiryTime

\* the loop of getActiveVerificationCount without the test of expiryTime
RECURSIVE ActiveLoop_NoExpiry(_, _)
ActiveLoop_NoExpiry(i, activeCount) ==
    IF ~(i < verificationCount) THEN activeCount
    ELSE ActiveLoop_NoExpiry(i + 1,
            IF /\ verifications[i].isActive
               /\ verifications[i].isVerified
            THEN activeCount + 1 ELSE activeCount)

\* the loop of getActiveVerificationCount from index i on, with the count so far
RECURSIVE ActiveLoop(_, _)
ActiveLoop(i, activeCount) ==
    IF ~(i < verificationCount) THEN activeCount
    ELSE ActiveLoop(i + 1,
            IF /\ verifications[i].isActive
               /\ verifications[i].isVerified
               /\ now <= verifications[i].expiryTime
            THEN activeCount + 1 ELSE activeCount)

getActiveVerificationCount == ActiveLoop(0, 0)

\* the loop of getPendingRequestCount that counts every request
RECURSIVE PendingLoop_CountsAll(_, _)
PendingLoop_CountsAll(i, pendingCount) ==
    IF ~(i < requestCounter) THEN pendingCount
    ELSE PendingLoop_CountsAll(i + 1, pendingCount + 1)

RECURSIVE PendingLoop(_, _)
PendingLoop(i, pendingCount) ==
    IF ~(i < requestCounter) THEN pendingCount
    ELSE PendingLoop(i + 1,
            IF verificationRequests[i].isPending THEN pendingCount + 1
            ELSE pendingCount)

getPendingRequestCount == PendingLoop(0, 0)

(* ------------------------------- time ---------------------------------- *)
\* a later block in which the requests older than one validity period time out
Tick_RequestTimeout(t) ==
    /\ t > now
    /\ now' = t
    /\ last' = Call("block", ZeroAddress, <<t>>, <<>>)
    /\ verificationRequests' =
          [i \in DOMAIN verificationRequests |->
              IF t >= verificationRequests[i].requestTime + VERIFICATION_VALIDITY_PERIOD
              THEN [verificationRequests[i] EXCEPT !.isPending = FALSE]
              ELSE verificationRequests[i]]
    /\ UNCHANGED <<verificationAuthority, verificationCount, verifications,
                   userVerifications, userRequests, requestCounter, allowed>>

\* a later block: block.timestamp grows, the storage is untouched
Tick(t) ==
    /\ t > now
    /\ now' = t
    /\ last' = Call("block", ZeroAddress, <<t>>, <<>>)
    /\ UNCHANGED storage

\* the calls of PrivateIncomeVerification and the later blocks; they leave the
\* storage of the Example contract alone
Next ==
    \/ \E s \in Addr, l \in Levels, m \in Months, h \in DocHashes :
          /\ requestCounter < MaxRequests
          /\ requestIncomeVerification(s, l, m, h)
          /\ UNCHANGED <<example, tool>>
    \/ \E s \in Addr, r \in Ids, h \in EmployerHashes, a \in BOOLEAN :
          processVerificationRequest(s, r, h, a) /\ UNCHANGED <<example, tool>>
    \/ \E s \in Addr, v \in Ids : deactivateVerification(s, v) /\ UNCHANGED <<example, tool>>
    \/ \E s \in Addr, n \in Addr \cup {ZeroAddress} :
          updateVerificationAuthority(s, n) /\ UNCHANGED <<example, tool>>
    \/ \E t \in TimePoints : Tick(t) /\ UNCHANGED <<example, tool>>

Spec == Init /\ [][Next]_vars

(* -------------------------- calls of the views ------------------------- *)
\* a view call that returns: the storage is untouched and no event is emitted.
\* Of a view call, last keeps only that it was one (not the function, its caller or
\* its arguments): none of them is written anywhere by the contract.
Returned ==
    /\ last' = Call("view", ZeroAddress, <<>>, <<>>)
    /\ UNCHANGED <<storage, now, example, tool>>

verifyIncomeThresholdCall(sender, verificationId, requiredLevel) ==
    IF verifyIncomeThresholdErr(sender, verificationId, requiredLevel) # OK THEN Revert
    ELSE Returned

compareIncomesCall(sender, verificationId1, verificationId2) ==
    IF compareIncomesErr(sender, verificationId1, verificationId2) # OK THEN Revert
    ELSE Returned

getVerificationInfoCall(sender, verificationId) ==
    IF getVerificationInfoErr(sender, verificationId) # OK THEN Revert
    ELSE Returned

getUserVerificationsCall(sender, user) ==
    IF getUserVerificationsErr(sender, user) # OK THEN Revert
    ELSE Returned

getUserRequestsCall(sender, user) ==
    IF getUserRequestsErr(sender, user) # OK THEN Revert
    ELSE Returned

getRequestInfoCall(sender, requestId) ==
    IF getRequestInfoErr(sender, requestId) # OK THEN Revert
    ELSE Returned

\* isVerificationValid that deactivates the expired record it finds
isVerificationValidCall_LazyExpiry(sender, verificationId) ==
    /\ last' = Call("view", ZeroAddress, <<>>, <<>>)
    /\ verifications' =
          IF /\ verificationId < verificationCount
             /\ now > verifications[verificationId].expiryTime
          THEN [verifications EXCEPT ![verificationId].isActive = FALSE]
          ELSE verifications
    /\ UNCHANGED <<verificationAuthority, verificationCount, userVerifications,
                   verificationRequests, userRequests, requestCounter, allowed, now,
                   example, tool>>

isVerificationValidCall(sender, verificationId) ==
    Returned

getActiveVerificationCountCall(sender) ==
    Returned

getPendingRequestCountCall(sender) ==
    Returned

ViewCall ==
    \/ \E s \in Addr, v \in Ids, l \in Levels : verifyIncomeThresholdCall(s, v, l)
    \/ \E s \in Addr, v1 \in Ids, v2 \in Ids : compareIncomesCall(s, v1, v2)
    \/ \E s \in Addr, v \in Ids : getVerificationInfoCall(s, v)
    \/ \E s \in Addr, u \in Addr : getUserVerificationsCall(s, u)
    \/ \E s \in Addr, u \in Addr : getUserRequestsCall(s, u)
    \/ \E s \in Addr, r \in Ids : getRequestInfoCall(s, r)
    \/ \E s \in Addr, v \in Ids : isVerificationValidCall(s, v)
    \/ \E s \in Addr : getActiveVerificationCountCall(s)
    \/ \E s \in Addr : getPendingRequestCountCall(s)

NextWithViews == Next \/ ViewCall

\* the contract with the calls of its view functions as steps
SpecViews == Init /\ [][NextWithViews]_vars

(* ----------------- two requests at one block timestamp ----------------- *)
\* number of requests SpecPair lets callers submit
MaxPairRequests == 2
\* uint8 income levels: two accepted values
PairLevels == {1, 255}
PairIds == 0 .. MaxPairRequests

InitPair ==
    /\ verificationAuthority = Deployer
    /\ verificationCount = 0
    /\ requestCounter = 0
    /\ verifications = [i \in PairIds |-> ZeroVerification]
    /\ verificationRequests = [i \in PairIds |-> ZeroRequest]
    /\ userVerifications = [a \in Addr |-> <<>>]
    /\ userRequests = [a \in Addr |-> <<>>]
    /\ allowed = {}
    /\ now = GenesisTime
    /\ last = Call("constructor", Deployer, <<>>, <<>>)
    /\ owner = Deployer
    /\ encryptedCounter = NoHandle
    /\ pc = NotStarted
    /\ config = NoConfig
    /\ disk = EmptyDisk

NextPair ==
    \/ \E s \in Addr, l \in PairLevels, m \in Months, h \in DocHashes :
          /\ requestCounter < MaxPairRequests
          /\ requestIncomeVerification(s, l, m, h)
          /\ UNCHANGED <<example, tool>>
    \/ \E s \in Addr, r \in PairIds, h \in EmployerHashes, a \in BOOLEAN :
          processVerificationRequest(s, r, h, a) /\ UNCHANGED <<example, tool>>
    \/ \E s \in Addr, v \in PairIds : deactivateVerification(s, v) /\ UNCHANGED <<example, tool>>

\* the contract with several requests and records of different levels, in the
\* deployment block's time and under the deployer as authority
SpecPair == InitPair /\ [][NextPair]_vars

(* ---------------- base-template/contracts/Example.sol ------------------ *)
\* number of updateValue calls the model lets callers execute
MaxUpdates == 2
\* the handles of the encrypted inputs that callers submit
InputHandles == {1, 2}
\* address(this) of the Example contract
ExampleContract == 5
\* the storage of PrivateIncomeVerification but the ACL
registry == <<verificationAuthority, verificationCount, verifications, userVerifications,
              verificationRequests, userRequests, requestCounter>>

\* FHE.fromExternal: the euint32 of a verified input has the handle of the input
fromExternal(inputValue) == [kind |-> "external", val |-> inputValue]

\* FHE.add: the handle of the result is a function of the handles of its operands
\* (an injective one: the operand handles are the digits of val)
fheAdd(lhs, rhs) ==
    [kind |-> "fheAdd", val |-> lhs.val * (Cardinality(InputHandles) + 1) + rhs.val]

\* the number of FHE.add that made the handle
RECURSIVE Additions(_)
Additions(val) ==
    IF val = 0 THEN 0 ELSE 1 + Additions(val \div (Cardinality(InputHandles) + 1))

onlyOwner(sender) == IF sender = owner THEN OK ELSE "Not the owner"

\* FHE.fromExternal reverts when the input verifier does not accept inputProof for
\* inputValue, msg.sender and this contract
updateValueErr(proofAccepted) ==
    IF proofAccepted THEN OK ELSE "Invalid input proof"

updateValue(sender, inputValue, proofAccepted) ==
    IF updateValueErr(proofAccepted) # OK THEN Revert
    ELSE
      LET value == fromExternal(inputValue)
          newCounter == fheAdd(encryptedCounter, value)
      IN  /\ encryptedCounter' = newCounter
          /\ allowed' = allowed \cup {<<newCounter, ExampleContract>>,
                                      <<newCounter, sender>>}
          /\ last' = Call("updateValue", sender, <<inputValue>>,
                          << <<"ValueUpdated", sender>> >>)
          /\ UNCHANGED <<registry, now, owner>>

\* FHE.allow reverts when the calling contract itself is not allowed on the handle,
\* which is the case of the counter that was never assigned
grantAccessErr ==
    IF <<encryptedCounter, ExampleContract>> \in allowed THEN OK
    ELSE "SenderNotAllowed"

grantAccess(sender) ==
    IF grantAccessErr # OK THEN Revert
    ELSE
      /\ allowed' = allowed \cup {<<encryptedCounter, sender>>}
      /\ last' = Call("grantAccess", sender, <<>>, <<>>)
      /\ UNCHANGED <<registry, now, owner, encryptedCounter>>

getCounter == encryptedCounter

\* transferOwnershipErr without the onlyOwner modifier
transferOwnershipErr_NoModifier(sender, newOwner) ==
    FirstError(<<IF newOwner # ZeroAddress THEN OK ELSE "Invalid address">>)

transferOwnershipErr(sender, newOwner) ==
    FirstError(<<onlyOwner(sender),
                 IF newOwner # ZeroAddress THEN OK ELSE "Invalid address">>)

transferOwnership(sender, newOwner) ==
    IF transferOwnershipErr(sender, newOwner) # OK THEN Revert
    ELSE
      LET previousOwner == owner
      IN  /\ owner' = newOwner
          /\ last' = Call("transferOwnership", sender, <<newOwner>>,
                          << <<"OwnershipTransferred", previousOwner, newOwner>> >>)
          /\ UNCHANGED <<registry, allowed, now, encryptedCounter>>

NextExample ==
    \/ \E s \in Addr, v \in InputHandles, a \in BOOLEAN :
          /\ Additions(encryptedCounter.val) < MaxUpdates
          /\ updateValue(s, v, a)
          /\ UNCHANGED tool
    \/ \E s \in Addr : grantAccess(s) /\ UNCHANGED tool
    \/ \E s \in Addr, n \in Addr \cup {ZeroAddress} :
          transferOwnership(s, n) /\ UNCHANGED tool

\* the Example contract after its deployment by Deployer
SpecExample == Init /\ [][NextExample]_vars

(* ------------- the scaffolding tool (create-fhevm-example) ------------- *)
\* answers to the question for the contract name, and what trim() makes of them
ContractNames == {"Token", " Vault "}
trim(str) == CASE str = " Vault " -> "Vault" [] OTHER -> str
\* answers to "Proceed with scaffolding? (y/n)", and what toLowerCase() makes of them
Confirms == {"y", "Y", "n", ""}
toLowerCase(str) == CASE str = "Y" -> "y" [] OTHER -> str

\* path.join below config.outputDir; "." is config.outputDir itself
join(dir, name) == dir \o "/" \o name

\* the lists the three functions iterate over
dirs == <<".", "contracts", "test", "scripts", "docs">>
files == <<"package.json", "README.md", "hardhat.config.ts", "tsconfig.json",
           ".gitignore", ".env.example">>
filesToCopy == <<"deploy.ts", "generate-docs.ts">>

\* what the output directory may hold before the tool runs
InitialOutputs ==
    { {}, {".", "contracts"}, {".", "contracts", join("contracts", "Token.sol")} }

At(at, i) == [at |-> at, i |-> i]

\* scaffold() up to the confirmation: the answers are read, the configuration is
\* built, and the tool stops when the answer is not "y"
askQuestions(contractName, confirm) ==
    /\ pc = NotStarted
    /\ config' = [contractName |-> trim(contractName), confirm |-> confirm]
    /\ pc' = IF toLowerCase(confirm) # "y" THEN At("cancelled", 0) ELSE At("dirs", 1)
    /\ UNCHANGED disk

\* one iteration of dirs.forEach in createDirectoryStructure
createDirectoryStructure ==
    /\ pc.at = "dirs"
    /\ LET dir == dirs[pc.i]
       IN  disk' = IF dir \notin disk.out
                   THEN [disk EXCEPT !.out = @ \cup {dir}]
                   ELSE disk
    /\ pc' = IF pc.i < Len(dirs) THEN At("dirs", pc.i + 1) ELSE At("files", 1)
    /\ UNCHANGED config

\* one iteration of files.forEach in writeConfigFiles
writeConfigFiles ==
    /\ pc.at = "files"
    /\ disk' = [disk EXCEPT !.out = @ \cup {files[pc.i]}]
    /\ pc' = IF pc.i < Len(files) THEN At("files", pc.i + 1) ELSE At("copy", 1)
    /\ UNCHANGED config

\* one iteration of filesToCopy.forEach in copyTemplateFiles
copyTemplateFiles ==
    /\ pc.at = "copy"
    /\ LET file == filesToCopy[pc.i]
       IN  disk' = IF file \in disk.template
                   THEN [disk EXCEPT !.out = @ \cup {join("scripts", file)}]
                   ELSE disk
    /\ pc' = IF pc.i < Len(filesToCopy) THEN At("copy", pc.i + 1) ELSE At("done", 0)
    /\ UNCHANGED config

\* the tool is started in some output directory, with some of the two scripts next
\* to it
InitScaffold ==
    /\ verificationAuthority = Deployer
    /\ verificationCount = 0
    /\ requestCounter = 0
    /\ verifications = [i \in Ids |-> ZeroVerification]
    /\ verificationRequests = [i \in Ids |-> ZeroRequest]
    /\ userVerifications = [a \in Addr |-> <<>>]
    /\ userRequests = [a \in Addr |-> <<>>]
    /\ allowed = {}
    /\ now = GenesisTime
    /\ last = Call("constructor", Deployer, <<>>, <<>>)
    /\ owner = Deployer
    /\ encryptedCounter = NoHandle
    /\ pc = NotStarted
    /\ config = NoConfig
    /\ \E out \in InitialOutputs, template \in SUBSET {"deploy.ts", "generate-docs.ts"} :
          disk = [out |-> out, template |-> template]

NextScaffold ==
    \/ \E n \in ContractNames, c \in Confirms :
          askQuestions(n, c) /\ UNCHANGED <<storage, now, last, example>>
    \/ createDirectoryStructure /\ UNCHANGED <<storage, now, last, example>>
    \/ writeConfigFiles /\ UNCHANGED <<storage, now, last, example>>
    \/ copyTemplateFiles /\ UNCHANGED <<storage, now, last, example>>

SpecScaffold == InitScaffold /\ [][NextScaffold]_vars

(* ------------------- the front end (app.js), read side ----------------- *)

\* the body of for (const id of verificationIds): html with the entries appended so
\* far; a call of the contract that reverts throws, which leaves the loop
RECURSIVE renderVerifications(_, _, _)
renderVerifications(userAccount, verificationIds, html) ==
    IF verificationIds = <<>> THEN [error |-> OK, html |-> html]
    ELSE LET id == Head(verificationIds)
             error == getVerificationInfoErr(userAccount, id)
             info == getVerificationInfo(userAccount, id)
             isValid == isVerificationValid(id)
         IN  IF error # OK THEN [error |-> error, html |-> html]
             ELSE renderVerifications(userAccount, Tail(verificationIds),
                     Append(html,
                        [id |-> id,
                         Status |-> IF isValid THEN "Valid" ELSE "Expired",
                         Active |-> IF info.isActive THEN "Yes" ELSE "No",
                         Verified |-> info.verificationTime,
                         Expires |-> info.expiryTime,
                         EmployerHash |-> info.employerHash]))

\* what loadUserVerifications does to the page: whether verificationsList.innerHTML
\* was assigned, the entries it was given, and the message shown
loadUserVerifications(connected, userAccount) ==
    LET verificationIds == getUserVerifications(userAccount, userAccount)
        loop == renderVerifications(userAccount, verificationIds, <<>>)
    IN  IF ~connected
        THEN [rendered |-> FALSE, html |-> <<>>,
              message |-> "Please connect your wallet first"]
        ELSE IF getUserVerificationsErr(userAccount, userAccount) # OK
        THEN [rendered |-> FALSE, html |-> <<>>,
              message |-> "Failed to load verifications"]
        ELSE IF Len(verificationIds) = 0
        THEN [rendered |-> TRUE, html |-> <<>>, message |-> OK]
        ELSE IF loop.error # OK
        THEN [rendered |-> FALSE, html |-> <<>>,
              message |-> "Failed to load verifications"]
        ELSE [rendered |-> TRUE, html |-> loop.html, message |-> OK]

(* ====================== properties of the contract ===================== *)
\* a step that executed a call of the external function op (a reverted call and a
\* view call are not steps)
Executed(op) == last' # last /\ last'.op = op

Allocated(id) == id < verificationCount
Submitted(id) == id < requestCounter
Processed(id) == Submitted(id) /\ ~verificationRequests[id].isPending

\* C1: a request is processed at most once.  An executed processVerificationRequest
\* finds its request pending and leaves it not pending; a processed request never
\* becomes pending again; and every call of the authority on a processed request,
\* whatever the employer hash and the decision, reverts with "Request not pending".
C1_ProcessedOnce ==
    /\ [](\A r \in Ids : Processed(r) =>
            \A h \in EmployerHashes :
                processVerificationRequestErr(verificationAuthority, r, h)
                    = "Request not pending")
    /\ [][/\ \A r \in Ids : Processed(r) => Processed(r)'
          /\ Executed("processVerificationRequest") =>
                /\ verificationRequests[last'.args[1]].isPending
                /\ ~verificationRequests'[last'.args[1]].isPending]_vars

C1_Witness ==
    /\ last.op = "processVerificationRequest"
    /\ Processed(last.args[1])
    /\ processVerificationRequestErr(verificationAuthority, last.args[1], "emp")
          = "Request not pending"

\* C2: a call of processVerificationRequest by anyone but the authority reverts with
\* "Not authorized" whatever its arguments are, so every executed call was made by
\* the authority of the state it was made in.
C2_OnlyAuthorityProcesses ==
    /\ [](\A s \in Addr, r \in Ids, h \in EmployerHashes :
            s # verificationAuthority =>
                processVerificationRequestErr(s, r, h) = "Not authorized")
    /\ [][Executed("processVerificationRequest") =>
            last'.caller = verificationAuthority]_vars

\* the requester of a pending request tries to approve it
C2_Witness ==
    \E r \in Ids :
        /\ Submitted(r) /\ verificationRequests[r].isPending
        /\ verificationRequests[r].requester # verificationAuthority
        /\ processVerificationRequestErr(verificationRequests[r].requester, r, "emp")
              = "Not authorized"
        /\ processVerificationRequestErr(verificationAuthority, r, "emp") = OK
\* C3: an executed processVerificationRequest with _isApproved = false clears the
\* isPending flag of its request and changes nothing else: no record, no index
\* entry, no counter, no event.
C3_RejectOnlyClearsPending ==
    [][Executed("processVerificationRequest") /\ last'.args[3] = FALSE =>
          /\ verificationRequests' =
                [verificationRequests EXCEPT ![last'.args[1]].isPending = FALSE]
          /\ verificationRequests[last'.args[1]].isPending
          /\ UNCHANGED <<verificationAuthority, verificationCount, verifications,
                         userVerifications, userRequests, requestCounter, allowed, now>>
          /\ last'.events = <<>>]_vars

C3_Witness ==
    /\ last.op = "processVerificationRequest"
    /\ last.args[3] = FALSE
    /\ Processed(last.args[1])
    /\ verificationCount = 0
    /\ \A a \in Addr : userVerifications[a] = <<>>

\* C4: an executed processVerificationRequest with _isApproved = true on request r
\* at time now writes exactly one record, at the previous verificationCount:
\* verified, active, owned by r's requester, with r's two handles, the supplied
\* employer hash, verificationTime = now and expiryTime = verificationTime + 365 days;
\* it appends that ID to the requester's list and adds one to verificationCount.
C4_ApproveCreatesRecord ==
    [][Executed("processVerificationRequest") /\ last'.args[3] = TRUE =>
          LET request == verificationRequests[last'.args[1]]
              id == verificationCount
          IN  /\ verificationCount' = id + 1
              /\ verifications' = [verifications EXCEPT ![id] =
                    [encryptedIncomeLevel |-> request.claimedIncomeLevel,
                     encryptedEmploymentMonths |-> request.employmentDuration,
                     isVerified |-> TRUE,
                     isActive |-> TRUE,
                     verificationTime |-> now,
                     expiryTime |-> now + 365 * 86400,
                     employerHash |-> last'.args[2],
                     verifiedUser |-> request.requester]]
              /\ verifications'[id].expiryTime
                    = verifications'[id].verificationTime + 365 * 86400
              /\ userVerifications' = [userVerifications EXCEPT
                    ![request.requester] = Append(@, id)]
              /\ UNCHANGED <<verificationAuthority, userRequests, requestCounter,
                             allowed, now>>]_vars

\* a request approved one validity period after it was submitted
C4_Witness ==
    /\ last.op = "processVerificationRequest"
    /\ last.args[3] = TRUE
    /\ verificationCount = 1
    /\ verifications[0].verificationTime = now
    /\ verificationRequests[last.args[1]].requestTime < now
    /\ verifications[0].expiryTime = now + VERIFICATION_VALIDITY_PERIOD

\* C5: a record whose isActive is false keeps isActive false in every later state.
C5_InactiveForever ==
    [][\A id \in Ids :
          Allocated(id) /\ ~verifications[id].isActive => ~verifications'[id].isActive]_vars

\* a record that was deactivated some steps ago
C5_Witness ==
    /\ last.op # "deactivateVerification"
    /\ \E id \in Ids : Allocated(id) /\ ~verifications[id].isActive

\* C6: isVerificationValid(id) is exactly id < verificationCount, isActive, isVerified
\* and now <= expiryTime: false (not a revert) for an unallocated ID, false after
\* expiryTime whatever isActive is, true at now = expiryTime for an active record,
\* and false in the state right after a deactivation.
C6_IsValidExact ==
    /\ [](\A id \in Ids :
            /\ isVerificationValid(id) =
                  (/\ id < verificationCount
                   /\ verifications[id].isActive
                   /\ verifications[id].isVerified
                   /\ now <= verifications[id].expiryTime)
            /\ (~Allocated(id) => isVerificationValid(id) = FALSE)
            /\ (Allocated(id) /\ now > verifications[id].expiryTime
                  => ~isVerificationValid(id))
            /\ (Allocated(id) /\ verifications[id].isActive
                  /\ now = verifications[id].expiryTime => isVerificationValid(id)))
    /\ [][\A id \in Ids :
            Executed("deactivateVerification") /\ last'.args[1] = id
                => isVerificationValid(id) /\ ~isVerificationValid(id)']_vars

\* an active record at the last second of its validity
C6_Witness ==
    \E id \in Ids :
        /\ Allocated(id) /\ verifications[id].isActive
        /\ now = verifications[id].expiryTime
        /\ isVerificationValid(id)

Stranger(s, id) ==
    s # verifications[id].verifiedUser /\ s # verificationAuthority

\* C7 as stated: on an allocated record a caller who is neither its owner nor the
\* authority gets "Not authorized" from getVerificationInfo, verifyIncomeThreshold
\* and deactivateVerification, and a caller who is neither the queried user nor the
\* authority gets it from getUserRequests and getUserVerifications.
C7_Original ==
    /\ \A s \in Addr, id \in Ids :
          Allocated(id) /\ Stranger(s, id) =>
              /\ getVerificationInfoErr(s, id) = "Not authorized"
              /\ deactivateVerificationErr(s, id) = "Not authorized"
              /\ \A l \in Levels : verifyIncomeThresholdErr(s, id, l) = "Not authorized"
    /\ \A s \in Addr, u \in Addr :
          s # u /\ s # verificationAuthority =>
              /\ getUserRequestsErr(s, u) = "Not authorized"
              /\ getUserVerificationsErr(s, u) = "Not authorized"

\* C7: such a caller never succeeds.  The three record functions revert with the
\* error of validVerification when the record is not valid (unallocated, inactive or
\* expired) and with "Not authorized" when it is valid; the two list functions
\* revert with "Not authorized"; an executed deactivation was called by the owner
\* or the authority.
C7_StrangerAlwaysFails ==
    /\ [](/\ \A s \in Addr, id \in Ids :
               Stranger(s, id) =>
                 LET expected == IF validVerification(id) = OK THEN "Not authorized"
                                 ELSE validVerification(id)
                 IN  /\ expected # OK
                     /\ getVerificationInfoErr(s, id) = expected
                     /\ deactivateVerificationErr(s, id) = expected
                     /\ \A l \in Levels : verifyIncomeThresholdErr(s, id, l) = expected
          /\ \A s \in Addr, u \in Addr :
               s # u /\ s # verificationAuthority =>
                 /\ getUserRequestsErr(s, u) = "Not authorized"
                 /\ getUserVerificationsErr(s, u) = "Not authorized")
    /\ [][Executed("deactivateVerification") =>
            ~Stranger(last'.caller, last'.args[1])]_vars

\* a valid record and a caller who is neither its owner nor the authority
C7_Witness ==
    \E s \in Addr, id \in Ids :
        /\ Allocated(id) /\ validVerification(id) = OK
        /\ Stranger(s, id)
        /\ getVerificationInfoErr(s, id) = "Not authorized"
        /\ getUserVerificationsErr(s, verifications[id].verifiedUser) = "Not authorized"

\* C8: deactivateVerification is executed at most once per record: it finds the
\* record active, leaves it inactive for ever and emits one VerificationExpired
\* event, which nothing else emits; every later call on that record, by anyone,
\* reverts with "Verification not active".
C8_DeactivateOnce ==
    /\ [](\A s \in Addr, id \in Ids :
            Allocated(id) /\ ~verifications[id].isActive =>
                deactivateVerificationErr(s, id) = "Verification not active")
    /\ [][/\ \A id \in Ids :
               Allocated(id) /\ ~verifications[id].isActive
                   => Allocated(id)' /\ ~verifications'[id].isActive
          /\ Executed("deactivateVerification") =>
               /\ verifications[last'.args[1]].isActive
               /\ ~verifications'[last'.args[1]].isActive
               /\ last'.events = << <<"VerificationExpired", last'.args[1],
                                      verifications[last'.args[1]].verifiedUser>> >>
          /\ (last' # last /\ last'.op # "deactivateVerification") =>
               \A i \in 1 .. Len(last'.events) :
                   last'.events[i][1] # "VerificationExpired"]_vars

C8_Witness ==
    /\ last.op = "deactivateVerification"
    /\ ~verifications[last.args[1]].isActive
    /\ deactivateVerificationErr(verifications[last.args[1]].verifiedUser, last.args[1])
          = "Verification not active"
    /\ deactivateVerificationErr(verificationAuthority, last.args[1])
          = "Verification not active"

Deactivated(id) == Allocated(id) /\ ~verifications[id].isActive

BoundaryLevels == {0, 1, 2, 127, 128, 254, 255}

\* C10: requestIncomeVerification reverts exactly when _incomeLevel = 0 or
\* _employmentMonths = 0 or _documentHash is empty, with the message of the first
\* of these; otherwise any caller's call is executed; every executed call had valid
\* arguments and allocated the next request ID.
C10_SubmitValidation ==
    /\ [](/\ \A l \in BoundaryLevels, m \in BoundaryLevels, h \in DocHashes :
               /\ (requestIncomeVerificationErr(l, m, h) # OK)
                     <=> (l = 0 \/ m = 0 \/ h = "")
               /\ requestIncomeVerificationErr(l, m, h) =
                     (IF l = 0 THEN "Income level must be greater than 0"
                      ELSE IF m = 0 THEN "Employment duration must be greater than 0"
                      ELSE IF h = "" THEN "Document hash required"
                      ELSE OK)
          /\ \A s \in Addr :
               requestCounter < MaxRequests =>
                 ENABLED (/\ requestIncomeVerification(s, 255, 1, "Qm")
                          /\ requestCounter' = requestCounter + 1))
    /\ [][Executed("requestIncomeVerification") =>
            /\ last'.args[1] > 0 /\ last'.args[2] > 0 /\ last'.args[3] # ""
            /\ requestCounter' = requestCounter + 1
            /\ verificationRequests'[requestCounter].requester = last'.caller
            /\ verificationRequests'[requestCounter].isPending]_vars

C10_Witness ==
    /\ last.op = "requestIncomeVerification"
    /\ last.args = <<255, 1, "Qm">>
    /\ requestCounter = 1
    /\ requestIncomeVerificationErr(255, 0, "Qm")
          = "Employment duration must be greater than 0"
\* C11: an executed requestIncomeVerification by u stores, at the previous
\* requestCounter, a pending request of u with requestTime = now and the handles of
\* the two arguments; getUserRequests(u) called by u right afterwards returns the
\* old list followed by that ID; no record, record index or record counter changes.
C11_SubmitStoresPendingRequest ==
    [][\A u \in Addr :
          Executed("requestIncomeVerification") /\ last'.caller = u =>
              /\ verificationRequests' = [verificationRequests EXCEPT ![requestCounter] =
                    [requester |-> u,
                     claimedIncomeLevel |-> asEuint8(last'.args[1]),
                     employmentDuration |-> asEuint8(last'.args[2]),
                     isPending |-> TRUE,
                     requestTime |-> now,
                     documentHash |-> last'.args[3]]]
              /\ getUserRequestsErr(u, u)' = OK
              /\ getUserRequests(u, u)' = Append(getUserRequests(u, u), requestCounter)
              /\ getUserRequests(u, u)'[Len(getUserRequests(u, u)')] = requestCounter
              /\ last'.events
                    = << <<"VerificationRequested", requestCounter, u, now>> >>
              /\ UNCHANGED <<verificationCount, verifications, userVerifications>>]_vars

\* a request submitted one validity period after deployment
C11_Witness ==
    /\ last.op = "requestIncomeVerification"
    /\ requestCounter > 0
    /\ now > GenesisTime
    /\ verificationRequests[requestCounter - 1].requestTime = now
    /\ verificationRequests[requestCounter - 1].isPending
    /\ getUserRequests(last.caller, last.caller)
          [Len(getUserRequests(last.caller, last.caller))] = requestCounter - 1
    /\ verificationCount = 0

ExecutedCallErr ==
    CASE last'.op = "requestIncomeVerification" ->
            requestIncomeVerificationErr(last'.args[1], last'.args[2], last'.args[3])
      [] last'.op = "processVerificationRequest" ->
            processVerificationRequestErr(last'.caller, last'.args[1], last'.args[2])
      [] last'.op = "deactivateVerification" ->
            deactivateVerificationErr(last'.caller, last'.args[1])
      [] last'.op = "updateVerificationAuthority" ->
            updateVerificationAuthorityErr(last'.caller, last'.args[1])
      [] OTHER -> OK

\* C13: operations are all-or-nothing.  Every step that changes the storage or emits
\* an event is the execution of a call that passes all its checks in the state
\* before the step; a call that fails any check changes nothing.
C13_AllOrNothing ==
    [][/\ ExecutedCallErr = OK
       /\ storage' # storage \/ last'.events # <<>> =>
            /\ last' # last
            /\ last'.op \in {"requestIncomeVerification", "processVerificationRequest",
                             "deactivateVerification", "updateVerificationAuthority"}]_vars

\* a state with a pending request and a valid record, where calls of each function
\* fail
C13_Witness ==
    /\ last.op = "deactivateVerification"
    /\ \E s \in Addr, id \in Ids :
          /\ deactivateVerificationErr(s, id) = "Verification not active"
          /\ processVerificationRequestErr(verificationAuthority, id, "emp")
                = "Request not pending"
          /\ updateVerificationAuthorityErr(verificationAuthority, ZeroAddress)
                = "Invalid authority address"
          /\ requestIncomeVerificationErr(0, 1, "Qm")
                = "Income level must be greater than 0"

\* C14: the nine view functions never change the registry.  Every step after which
\* the latest call is a call of a view function, returned or reverted, leaves the whole
\* storage and the block timestamp as they were, so the calls that follow find the
\* state they would have found without it.
C14_ViewsChangeNothing ==
    [][last'.op = "view" => UNCHANGED <<storage, now>>]_vars

\* a view call returned on a registry that holds a processed request and a record
C14_Witness ==
    /\ last.op = "view"
    /\ \E id \in Ids : Processed(id) /\ Allocated(id)

\* C15 as stated: for a valid record and an authorized caller verifyIncomeThreshold
\* returns true exactly when the stored income level is greater than the required
\* level.
C15_Original ==
    \A s \in Addr, id \in Ids, requiredLevel \in BoundaryLevels :
        verifyIncomeThresholdErr(s, id, requiredLevel) = OK =>
            (verifyIncomeThreshold(s, id, requiredLevel)
                <=> verifications[id].encryptedIncomeLevel.val > requiredLevel)

\* C16 as stated: for two valid records and an authorized caller compareIncomes
\* returns true exactly when the income level of the first record is greater than or
\* equal to that of the second.
C16_Original ==
    \A s \in Addr, id1 \in PairIds, id2 \in PairIds :
        compareIncomesErr(s, id1, id2) = OK =>
            (compareIncomes(s, id1, id2)
                <=> verifications[id1].encryptedIncomeLevel.val
                       >= verifications[id2].encryptedIncomeLevel.val)

\* C17: compareIncomes returns if and only if both records are valid (allocated,
\* active, verified, not expired) and the caller owns the first record, owns the
\* second, or is the authority; on two valid records any other caller gets
\* "Not authorized"; with the same valid record as both arguments its owner and the
\* authority succeed.
C17_CompareAccess ==
    \A s \in Addr, id1 \in PairIds, id2 \in PairIds :
        LET bothValid == isVerificationValid(id1) /\ isVerificationValid(id2)
            entitled == \/ verifications[id1].verifiedUser = s
                        \/ verifications[id2].verifiedUser = s
                        \/ s = verificationAuthority
        IN  /\ compareIncomesErr(s, id1, id2) = OK <=> bothValid /\ entitled
            /\ bothValid /\ ~entitled =>
                  compareIncomesErr(s, id1, id2) = "Not authorized"
            /\ id1 = id2 /\ bothValid /\ entitled =>
                  compareIncomesErr(s, id1, id1) = OK

\* two valid records of different owners, neither of them the authority: the owner
\* of the second record alone is entitled by the second record, the third address by
\* neither
C17_Witness ==
    /\ isVerificationValid(0) /\ isVerificationValid(1)
    /\ verifications[0].verifiedUser # verifications[1].verifiedUser
    /\ verifications[0].verifiedUser # verificationAuthority
    /\ verifications[1].verifiedUser # verificationAuthority
    /\ compareIncomesErr(verifications[1].verifiedUser, 0, 1) = OK
    /\ compareIncomesErr(verifications[1].verifiedUser, 0, 0) = "Not authorized"
    /\ compareIncomesErr(verifications[0].verifiedUser, 0, 0) = OK

IsStrictlyIncreasing(seq) ==
    \A i \in 1 .. Len(seq), j \in 1 .. Len(seq) : i < j => seq[i] < seq[j]

Elements(seq) == {seq[i] : i \in 1 .. Len(seq)}

\* the number of places, over the lists of all users, that hold id
Occurrences(lists, id) ==
    Cardinality({<<u, i>> \in Addr \X (1 .. MaxPairRequests) :
                    i <= Len(lists[u]) /\ lists[u][i] = id})

\* C18: what getUserRequests(user) returns is the strictly increasing sequence of all
\* the submitted request IDs whose requester is user, and what
\* getUserVerifications(user) returns is the strictly increasing sequence of all the
\* allocated record IDs whose verifiedUser is user, inactive records and processed
\* requests included; every ID is in one place of one list; and the two functions
\* return exactly for the user and for the authority.
C18_UserListsExact ==
    /\ \A u \in Addr :
          /\ IsStrictlyIncreasing(getUserRequests(u, u))
          /\ Elements(getUserRequests(u, u))
                = {id \in PairIds : Submitted(id) /\ verificationRequests[id].requester = u}
          /\ IsStrictlyIncreasing(getUserVerifications(u, u))
          /\ Elements(getUserVerifications(u, u))
                = {id \in PairIds : Allocated(id) /\ verifications[id].verifiedUser = u}
          /\ Len(userRequests[u]) <= MaxPairRequests
          /\ Len(userVerifications[u]) <= MaxPairRequests
    /\ \A id \in PairIds :
          /\ Occurrences(userRequests, id) = (IF Submitted(id) THEN 1 ELSE 0)
          /\ Occurrences(userVerifications, id) = (IF Allocated(id) THEN 1 ELSE 0)
    /\ \A s \in Addr, u \in Addr :
          /\ getUserRequestsErr(s, u) = OK <=> s = u \/ s = verificationAuthority
          /\ getUserVerificationsErr(s, u) = OK <=> s = u \/ s = verificationAuthority

\* two users submitted one after the other and were approved in the opposite order,
\* and the first record was then deactivated
C18_Witness ==
    \E u \in Addr, w \in Addr :
        /\ u # w
        /\ userRequests[u] = <<0>> /\ userRequests[w] = <<1>>
        /\ userVerifications[w] = <<0>> /\ userVerifications[u] = <<1>>
        /\ ~verifications[0].isActive

IsPrefix(s1, s2) ==
    Len(s1) <= Len(s2) /\ \A i \in 1 .. Len(s1) : s1[i] = s2[i]

\* C19: a request and a record, once created, stay, and keep every field but
\* isPending and isActive.  In every step each submitted request is still submitted
\* and equal to what it was up to isPending, each allocated record is still allocated
\* and equal to what it was up to isActive, the lists of the users only grow at their
\* end and no grant on a handle is withdrawn.
C19_FieldsImmutable ==
    [][/\ \A id \in Ids :
            /\ Submitted(id) =>
                  /\ Submitted(id)'
                  /\ [verificationRequests'[id] EXCEPT
                         !.isPending = verificationRequests[id].isPending]
                       = verificationRequests[id]
            /\ Allocated(id) =>
                  /\ Allocated(id)'
                  /\ [verifications'[id] EXCEPT
                         !.isActive = verifications[id].isActive]
                       = verifications[id]
       /\ \A u \in Addr :
            /\ IsPrefix(userRequests[u], userRequests'[u])
            /\ IsPrefix(userVerifications[u], userVerifications'[u])
       /\ allowed \subseteq allowed']_vars

\* a request was processed and its record deactivated, the authority was replaced
\* and the record's expiry time has passed
C19_Witness ==
    /\ Processed(0)
    /\ Deactivated(0)
    /\ verifications[0].verifiedUser = verificationRequests[0].requester
    /\ verifications[0].employerHash = "emp"
    /\ verificationAuthority # Deployer
    /\ now > verifications[0].expiryTime

\* C20: in every state getActiveVerificationCount returns the number of record IDs
\* for which isVerificationValid is true, and getPendingRequestCount the number of
\* request IDs whose isPending is true.
C20_CountsExact ==
    /\ getActiveVerificationCount
          = Cardinality({id \in Ids : isVerificationValid(id)})
    /\ getPendingRequestCount
          = Cardinality({id \in Ids : verificationRequests[id].isPending})

\* a record that is still active after its expiry time is not counted
C20_Witness ==
    /\ \E id \in Ids :
          /\ Allocated(id)
          /\ verifications[id].isActive
          /\ now > verifications[id].expiryTime
    /\ getActiveVerificationCount = 0

\* C22 as stated: no operation receives a user's income level or employment months
\* as a plaintext value.  The arguments of every executed call carry no uint8 that the
\* contract then stores, encrypted, as the level or the months of a request.
C22_Original ==
    last.op = "requestIncomeVerification" =>
        /\ last.args[1] \notin 0 .. 255
        /\ last.args[2] \notin 0 .. 255

\* the addresses that FHE.allow and FHE.allowThis granted the handle to
Holders(handle) == {a \in Addr \cup {ThisContract} : <<handle, a>> \in allowed}

\* C23 as stated: the holders of each of the two handles of a submitted request, and of
\* the record derived from it, are exactly the contract itself and the requester.
C23_Original ==
    /\ \A id \in PairIds : Submitted(id) =>
          LET request == verificationRequests[id]
          IN  /\ Holders(request.claimedIncomeLevel) = {ThisContract, request.requester}
              /\ Holders(request.employmentDuration) = {ThisContract, request.requester}
    /\ \A id \in PairIds : Allocated(id) =>
          LET verification == verifications[id]
          IN  /\ Holders(verification.encryptedIncomeLevel)
                    = {ThisContract, verification.verifiedUser}
              /\ Holders(verification.encryptedEmploymentMonths)
                    = {ThisContract, verification.verifiedUser}

\* C24: a submitted request stays pending until the authority processes it.  The only
\* step that clears isPending of a request is an executed processVerificationRequest
\* on its ID whose caller is the authority of that moment; no call of another
\* function, no call of another caller and no later block does.
C24_PendingUntilProcessed ==
    [][\A id \in Ids :
          Submitted(id) /\ verificationRequests[id].isPending
            /\ ~verificationRequests'[id].isPending =>
              /\ Executed("processVerificationRequest")
              /\ last'.args[1] = id
              /\ last'.caller = verificationAuthority]_vars

\* a request is still pending more than one validity period after it was submitted,
\* under another authority than the one it was submitted under
C24_Witness ==
    \E id \in Ids :
        /\ Submitted(id)
        /\ verificationRequests[id].isPending
        /\ now > verificationRequests[id].requestTime + VERIFICATION_VALIDITY_PERIOD
        /\ verificationAuthority # Deployer

\* C25: the authority is the deployer after construction and is never the zero
\* address; it changes only in an executed updateVerificationAuthority called by the
\* authority with the new, non-zero, address; a call of any other caller reverts
\* with "Not authorized" and a call of the authority with the zero address with
\* "Invalid authority address".
C25_AuthorityChange ==
    /\ [](/\ verificationAuthority # ZeroAddress
          /\ last.op = "constructor" => verificationAuthority = Deployer
          /\ \A s \in Addr, n \in Addr \cup {ZeroAddress} :
                updateVerificationAuthorityErr(s, n) =
                    IF s # verificationAuthority THEN "Not authorized"
                    ELSE IF n = ZeroAddress THEN "Invalid authority address"
                    ELSE OK)
    /\ [][verificationAuthority' # verificationAuthority =>
            /\ Executed("updateVerificationAuthority")
            /\ last'.caller = verificationAuthority
            /\ last'.args[1] = verificationAuthority'
            /\ last'.args[1] # ZeroAddress]_vars

\* the authority was handed over twice and the deployer is no longer the authority
C25_Witness ==
    /\ last.op = "updateVerificationAuthority"
    /\ last.caller # Deployer
    /\ verificationAuthority \notin {Deployer, last.caller}
    /\ updateVerificationAuthorityErr(Deployer, Deployer) = "Not authorized"

\* C29: for a call of the authority the checks of processVerificationRequest apply in
\* the order request ID, isPending, employer hash, and the first one that fails gives
\* the error; a call changes the state only when the three pass.
C29_ProcessCheckOrder ==
    /\ [](\A r \in Ids, h \in EmployerHashes :
            processVerificationRequestErr(verificationAuthority, r, h) =
                IF r >= requestCounter THEN "Invalid request ID"
                ELSE IF ~verificationRequests[r].isPending THEN "Request not pending"
                ELSE IF h = "" THEN "Employer hash required"
                ELSE OK)
    /\ [][\A r \in Ids :
            Executed("processVerificationRequest") /\ last'.args[1] = r =>
                /\ r < requestCounter
                /\ verificationRequests[r].isPending
                /\ last'.args[2] # ""]_vars

\* a processed request, for which the empty hash gives "Request not pending"
C29_Witness ==
    /\ last.op = "processVerificationRequest"
    /\ processVerificationRequestErr(verificationAuthority, last.args[1], "")
          = "Request not pending"
    /\ processVerificationRequestErr(verificationAuthority, MaxRequests, "")
          = "Invalid request ID"

\* C30: the employer hash is required for a rejection too.  On a pending request the
\* call of the authority with the empty hash reverts with "Employer hash required",
\* whatever _isApproved is, and the call with a hash returns; no executed
\* processVerificationRequest, approving or rejecting, has the empty hash.
C30_HashRequiredOnReject ==
    /\ [](\A r \in Ids : Submitted(r) /\ verificationRequests[r].isPending =>
            /\ processVerificationRequestErr(verificationAuthority, r, "")
                  = "Employer hash required"
            /\ \E h \in EmployerHashes :
                  /\ processVerificationRequestErr(verificationAuthority, r, h) = OK
                  /\ ENABLED processVerificationRequest(verificationAuthority, r, h,
                                                        FALSE))
    /\ [][Executed("processVerificationRequest") => last'.args[2] # ""]_vars

\* a request that is pending in a later block: the rejection without a hash fails
\* and the rejection with a hash is still possible
C30_Witness ==
    \E r \in Ids :
        /\ Submitted(r)
        /\ verificationRequests[r].isPending
        /\ now > verificationRequests[r].requestTime
        /\ processVerificationRequestErr(verificationAuthority, r, "")
              = "Employer hash required"

\* C26 as stated: the owner of Example is the deployer after construction and changes
\* only in a transferOwnership of the owner with a non-zero address; the call of
\* another caller reverts with "Not the owner" and the call with the zero address
\* with "Invalid address"; after every executed transfer the caller, who was the
\* owner, cannot transfer the ownership any more.
C26_Original ==
    /\ [](/\ last.op = "constructor" => owner = Deployer
          /\ \A s \in Addr, n \in Addr \cup {ZeroAddress} :
                transferOwnershipErr(s, n) =
                    IF s # owner THEN "Not the owner"
                    ELSE IF n = ZeroAddress THEN "Invalid address"
                    ELSE OK)
    /\ [][/\ owner' # owner =>
                /\ Executed("transferOwnership")
                /\ last'.caller = owner
                /\ last'.args[1] = owner'
                /\ owner' # ZeroAddress
          /\ \A s \in Addr, n \in Addr :
                Executed("transferOwnership") /\ s = last'.caller =>
                    (transferOwnershipErr(s, n) = "Not the owner")']_vars

\* C26: as C26_Original, but the previous owner cannot transfer the ownership any
\* more after an executed transfer to another address than its own; the transfer to
\* the owner's own address is executed as well and leaves the owner in place.
C26_OwnerChange ==
    /\ [](/\ last.op = "constructor" => owner = Deployer
          /\ owner # ZeroAddress
          /\ \A s \in Addr, n \in Addr \cup {ZeroAddress} :
                transferOwnershipErr(s, n) =
                    IF s # owner THEN "Not the owner"
                    ELSE IF n = ZeroAddress THEN "Invalid address"
                    ELSE OK)
    /\ [][/\ owner' # owner =>
                /\ Executed("transferOwnership")
                /\ last'.caller = owner
                /\ last'.args[1] = owner'
                /\ owner' # ZeroAddress
          /\ \A s \in Addr, n \in Addr :
                Executed("transferOwnership") /\ s = last'.caller =>
                    IF last'.args[1] # s
                    THEN (transferOwnershipErr(s, n) = "Not the owner")'
                    ELSE owner' = s /\ (transferOwnershipErr(s, n) = OK)']_vars

\* the ownership went from the deployer to a second address and from there to a
\* third one: neither of the two previous owners can transfer it
C26_Witness ==
    /\ last.op = "transferOwnership"
    /\ last.caller # Deployer
    /\ owner \notin {Deployer, last.caller}
    /\ transferOwnershipErr(Deployer, Deployer) = "Not the owner"
    /\ transferOwnershipErr(last.caller, Deployer) = "Not the owner"

\* C27 as stated: an address obtains access to the current handle of the counter only
\* as the caller of the updateValue that produced the handle.
C27_Original ==
    [][\A a \in Addr :
          <<encryptedCounter', a>> \in allowed' /\ <<encryptedCounter', a>> \notin allowed
            => Executed("updateValue") /\ a = last'.caller]_vars

\* C28 as stated: when scaffold() has completed after the answer "y", the output
\* directory holds contracts/<ContractName>.sol and test/<ContractName>.test.ts,
\* next to the configuration files and the copied scripts.
C28_Original ==
    pc.at = "done" /\ toLowerCase(config.confirm) = "y" =>
        /\ join("contracts", config.contractName \o ".sol") \in disk.out
        /\ join("test", config.contractName \o ".test.ts") \in disk.out
        /\ \A i \in 1 .. Len(files) : files[i] \in disk.out
        /\ \A i \in 1 .. Len(filesToCopy) :
              filesToCopy[i] \in disk.template => join("scripts", filesToCopy[i]) \in disk.out

\* the error of the validity checks of a record, in the order not found, not active,
\* expired
ValidityError(id) ==
    IF id >= verificationCount THEN "Invalid verification ID"
    ELSE IF ~verifications[id].isActive THEN "Verification not active"
    ELSE IF now > verifications[id].expiryTime THEN "Verification expired"
    ELSE OK

Entitled(s, id) == s = verifications[id].verifiedUser \/ s = verificationAuthority

\* C31: verifyIncomeThreshold, getVerificationInfo and deactivateVerification give the
\* validity error of the record, in the order not found, not active, expired, before
\* "Not authorized"; compareIncomes gives the validity error of the first record,
\* else that of the second, else "Not authorized"; so "Not authorized" comes only
\* when every record named is valid.
C31_ValidityBeforeAuthorization ==
    /\ \A s \in Addr, id \in Ids :
          LET expected == IF ValidityError(id) # OK THEN ValidityError(id)
                          ELSE IF Entitled(s, id) THEN OK ELSE "Not authorized"
          IN  /\ getVerificationInfoErr(s, id) = expected
              /\ deactivateVerificationErr(s, id) = expected
              /\ \A l \in Levels : verifyIncomeThresholdErr(s, id, l) = expected
    /\ \A s \in Addr, id1 \in Ids, id2 \in Ids :
          compareIncomesErr(s, id1, id2) =
              IF ValidityError(id1) # OK THEN ValidityError(id1)
              ELSE IF ValidityError(id2) # OK THEN ValidityError(id2)
              ELSE IF Entitled(s, id1) \/ Entitled(s, id2) THEN OK
              ELSE "Not authorized"

\* a record that is both inactive and expired, next to an ID that was never
\* allocated: a stranger gets the error of the record named first
C31_Witness ==
    \E s \in Addr, id1 \in Ids, id2 \in Ids :
        /\ Allocated(id1) /\ ~Entitled(s, id1)
        /\ ~verifications[id1].isActive
        /\ now > verifications[id1].expiryTime
        /\ ~Allocated(id2)
        /\ compareIncomesErr(s, id1, id2) = "Verification not active"
        /\ compareIncomesErr(s, id2, id1) = "Invalid verification ID"

\* C32 as stated: a later block changes no stored field; deactivateVerification on a
\* record whose expiry time has passed reverts with "Verification expired" for the
\* owner and for the authority; a record that is active after its expiry time stays
\* active, and no step deactivates it.
C32_Original ==
    /\ [](\A id \in Ids : Allocated(id) /\ now > verifications[id].expiryTime =>
            /\ deactivateVerificationErr(verifications[id].verifiedUser, id)
                  = "Verification expired"
            /\ deactivateVerificationErr(verificationAuthority, id)
                  = "Verification expired")
    /\ [][/\ now' # now => UNCHANGED storage
          /\ \A id \in Ids :
                Allocated(id) /\ verifications[id].isActive
                  /\ now > verifications[id].expiryTime =>
                    /\ verifications'[id].isActive
                    /\ ~(Executed("deactivateVerification") /\ last'.args[1] = id)]_vars

\* C32: as C32_Original, with "Verification expired" for the records that are still
\* active after their expiry time and "Verification not active" for those that were
\* deactivated before it.
C32_ExpiryNotStored ==
    /\ [](\A id \in Ids : Allocated(id) /\ now > verifications[id].expiryTime =>
            LET expected == IF verifications[id].isActive THEN "Verification expired"
                            ELSE "Verification not active"
            IN  /\ deactivateVerificationErr(verifications[id].verifiedUser, id) = expected
                /\ deactivateVerificationErr(verificationAuthority, id) = expected)
    /\ [][/\ now' # now => UNCHANGED storage
          /\ \A id \in Ids :
                Allocated(id) /\ verifications[id].isActive
                  /\ now > verifications[id].expiryTime =>
                    /\ verifications'[id].isActive
                    /\ ~(Executed("deactivateVerification") /\ last'.args[1] = id)]_vars

\* a record that is still active after a call that was executed after its expiry
\* time
C32_Witness ==
    \E id \in Ids :
        /\ Allocated(id)
        /\ verifications[id].isActive
        /\ now > verifications[id].expiryTime
        /\ last.op = "updateVerificationAuthority"
        /\ deactivateVerificationErr(verifications[id].verifiedUser, id)
              = "Verification expired"

\* C33: the validity of a record never comes back.  A record for which
\* isVerificationValid is false has it false after every step; no step moves the
\* expiry time of a record; and isVerificationValid is false for every record at
\* every time later than its verificationTime plus VERIFICATION_VALIDITY_PERIOD.
C33_ValidityMonotone ==
    /\ [](\A id \in Ids :
            Allocated(id)
              /\ now > verifications[id].verificationTime + VERIFICATION_VALIDITY_PERIOD
                => ~isVerificationValid(id))
    /\ [][\A id \in Ids : Allocated(id) =>
            /\ ~isVerificationValid(id) => ~isVerificationValid(id)'
            /\ verifications'[id].expiryTime = verifications[id].expiryTime
            /\ now' >= now]_vars

\* a record that was deactivated before its expiry time, which has passed since
C33_Witness ==
    \E id \in Ids :
        /\ Allocated(id)
        /\ ~verifications[id].isActive
        /\ now > verifications[id].verificationTime + VERIFICATION_VALIDITY_PERIOD
        /\ ~isVerificationValid(id)

\* C34: validVerification lets an ID through exactly when isVerificationValid returns
\* true for it: every allocated record has isVerified set and the requester of a
\* submitted request as its verifiedUser.
C34_GateIsValidity ==
    /\ \A id \in Ids : validVerification(id) = OK <=> isVerificationValid(id)
    /\ \A id \in Ids : Allocated(id) =>
          /\ verifications[id].isVerified
          /\ verifications[id].verifiedUser # ZeroAddress
          /\ \E r \in Ids :
                /\ Processed(r)
                /\ verificationRequests[r].requester = verifications[id].verifiedUser

\* a record that the gate lets through, of a requester who is not the authority
C34_Witness ==
    \E id \in Ids :
        /\ validVerification(id) = OK
        /\ isVerificationValid(id)
        /\ verifications[id].verifiedUser # verificationAuthority
        /\ now > GenesisTime

\* C35: verificationCount grows by one in every executed approval and in no other
\* step, so it is the number of approved requests; requestCounter is the number of
\* pending requests plus the number of processed ones, of which verificationCount
\* were approved; hence verificationCount + getPendingRequestCount <= requestCounter
\* and getActiveVerificationCount <= verificationCount.
C35_CounterArithmetic ==
    /\ [](LET processed == Cardinality({r \in Ids : Processed(r)})
          IN  /\ requestCounter = getPendingRequestCount + processed
              /\ verificationCount <= processed
              /\ verificationCount + getPendingRequestCount <= requestCounter
              /\ getActiveVerificationCount <= verificationCount)
    /\ [][verificationCount' =
             IF Executed("processVerificationRequest") /\ last'.args[3]
             THEN verificationCount + 1
             ELSE verificationCount]_vars

\* a rejected request: it is counted by requestCounter only
C35_Witness ==
    /\ last.op = "processVerificationRequest"
    /\ ~last.args[3]
    /\ requestCounter > verificationCount + getPendingRequestCount

\* what a caller who is no longer entitled gets from the functions of the authority
\* and from the reads of what it does not own, with unauthorized as the error the
\* record functions give on a record that is not the caller's
Refused(p, unauthorized) ==
    /\ \A r \in Ids, h \in EmployerHashes :
          processVerificationRequestErr(p, r, h) = "Not authorized"
    /\ \A n \in Addr \cup {ZeroAddress} :
          updateVerificationAuthorityErr(p, n) = "Not authorized"
    /\ \A u \in Addr \ {p} :
          /\ getUserRequestsErr(p, u) = "Not authorized"
          /\ getUserVerificationsErr(p, u) = "Not authorized"
    /\ \A r \in Ids : Submitted(r) /\ verificationRequests[r].requester # p =>
          getRequestInfoErr(p, r) = "Not authorized"
    /\ \A id \in Ids : Allocated(id) /\ verifications[id].verifiedUser # p =>
          /\ getVerificationInfoErr(p, id) = unauthorized[id]
          /\ deactivateVerificationErr(p, id) = unauthorized[id]
          /\ \A l \in Levels : verifyIncomeThresholdErr(p, id, l) = unauthorized[id]

\* what the authority can do with the requests and records that exist
Empowered(a) ==
    /\ \A r \in Ids : Submitted(r) /\ verificationRequests[r].isPending =>
          /\ processVerificationRequestErr(a, r, "emp") = OK
          /\ getRequestInfoErr(a, r) = OK
    /\ \A id \in Ids : isVerificationValid(id) =>
          /\ getVerificationInfoErr(a, id) = OK
          /\ deactivateVerificationErr(a, id) = OK
    /\ \A u \in Addr : getUserRequestsErr(a, u) = OK /\ getUserVerificationsErr(a, u) = OK

C38_Original ==
    \A u \in Addr :
        LET page == loadUserVerifications(TRUE, u)
            ids == getUserVerifications(u, u)
        IN  /\ page.rendered
            /\ Len(page.html) = Len(ids)
            /\ \A k \in 1 .. Len(ids) :
                  /\ page.html[k].id = ids[k]
                  /\ page.html[k].Status = "Valid" <=> isVerificationValid(ids[k])
                  /\ page.html[k].Active = "Yes" <=> verifications[ids[k]].isActive
====
